---- MODULE Spec2Model ----
(***************************************************************************)
(* Smart-home controller (src/smart_home_controller.py): the device        *)
(* registry, the power model, the pub/sub subscriber with its two history  *)
(* buffers, the background sampler and the UI handlers that mutate the     *)
(* devices.                                                                *)
(*                                                                         *)
(* Granularity: a UI callback is one action; simulator_task is cut at its  *)
(* only suspension point (await asyncio.sleep, line 188) and, inside one   *)
(* iteration, after the call of compute_total_power (line 179).            *)
(* Numbers: temperatures are whole degrees Celsius, powers whole watts.    *)
(* The wall-clock "timestamp" field of a log message is not modelled.      *)
(* Optional values (Python None) are sequences of length 0 or 1.           *)
(***************************************************************************)
EXTENDS Integers, Sequences, FiniteSets, TLC

VARIABLES
    devices,        \* main.devices: id -> record                (lines 16-41)
    logs,           \* main.logs                                 (line 44)
    power_history,  \* main.power_history: <<time, total_power>> (line 47)
    log_table,      \* main.log_table: None or its rows          (line 50)
    power_chart,    \* main.power_chart: None or its data points (line 51)
    view,           \* the one view route_change left in page.views
    t,              \* simulator_task.t                          (line 177)
    total_power,    \* simulator_task.total_power                (line 179)
    pc,             \* position of simulator_task
    subscribers,    \* page.pubsub: handlers in subscription order
    sent,           \* history: every message given to send_all, in order
    recv,           \* history: per observer, the numbers of the messages it got
    subAt,          \* history: per observer, Len(sent) when it subscribed
    lastFail        \* history: number of the last message a handler failed on

vars == <<devices, logs, power_history, log_table, power_chart, view, t,
          total_power, pc, subscribers, sent, recv, subAt, lastFail>>

----------------------------------------------------------------------------
(* Bounds of the model *)
MaxT == 3
MaxLogs == 2
MaxTLong == 60
MaxLogsLong == 1
MaxTBus == 2
MaxLogsBus == 1
MaxTNav == 1
MaxLogsNav == 2
MaxTRaw == 1
MaxLogsRaw == 2
MaxTPower == 1
MaxTToggle == 1
MaxLogsToggle == 4

(* Program constants *)
HistCap == 50
LightWatts == 40
FanWattsPerSpeed == 20
ThermoWatts == 500
ThermoThreshold == 20
FanMin == 0
FanMax == 3
SliderMin == 10
SliderMax == 30
InitSetpoint == 22

None == <<>>
Some(x) == <<x>>

DeviceIds == {"light1", "fan1", "thermo1", "door1"}
UnknownIds == {"ghost1"}
Observers == {"obs1", "obs2"}

\* values the two sliders deliver (lines 268-274, 324-329)
FanSliderValues == FanMin..FanMax
ThermoSliderValues == {SliderMin, ThermoThreshold, ThermoThreshold + 1, SliderMax}
\* values handed to the fan handler when it is driven directly
FanRawValues == (FanMin - 1)..(FanMax + 2)

MkDevices(on, speed, setpoint, locked) ==
    ("light1" :> [id |-> "light1", name |-> "Living Room Light",
                  type |-> "light", is_on |-> on]) @@
    ("fan1" :> [id |-> "fan1", name |-> "Ceiling Fan",
                type |-> "fan", speed |-> speed]) @@
    ("thermo1" :> [id |-> "thermo1", name |-> "Thermostat",
                   type |-> "thermostat", setpoint |-> setpoint]) @@
    ("door1" :> [id |-> "door1", name |-> "Front Door",
                 type |-> "door", locked |-> locked])

InitDevices == MkDevices(FALSE, 0, InitSetpoint, TRUE)

----------------------------------------------------------------------------
(* Power model *)

\* variant: the thermostat threshold compared with >=
compute_total_power_ge(devs) ==
    LET light == devs["light1"]
        fan == devs["fan1"]
        thermo == devs["thermo1"]
        total1 == IF light.is_on THEN LightWatts ELSE 0
        total2 == total1 + fan.speed * FanWattsPerSpeed
    IN IF thermo.setpoint >= ThermoThreshold THEN total2 + ThermoWatts ELSE total2

compute_total_power(devs) ==
    LET light == devs["light1"]
        fan == devs["fan1"]
        thermo == devs["thermo1"]
        total0 == 0
        total1 == IF light.is_on THEN total0 + LightWatts ELSE total0
        total2 == total1 + fan.speed * FanWattsPerSpeed
        total3 == IF thermo.setpoint > ThermoThreshold
                  THEN total2 + ThermoWatts ELSE total2
    IN total3

----------------------------------------------------------------------------
(* Subscriber: handle_message and the chart helper.  h is the record of the *)
(* four variables the subscriber reads and writes.                          *)

Hist == [logs |-> logs, power_history |-> power_history,
         log_table |-> log_table, power_chart |-> power_chart]

update_power_chart(h) ==
    IF h.power_chart = None THEN h
    ELSE IF h.power_history = <<>> THEN h
    ELSE [h EXCEPT !.power_chart = Some(h.power_history)]

\* variant: the log capped to its newest entry, as the power history is capped
AppendLogCapped(l, msg) ==
    IF Len(Append(l, msg)) > 1 THEN Tail(Append(l, msg)) ELSE Append(l, msg)

\* logs.append(msg)
AppendLog(l, msg) == Append(l, msg)

\* variant: pop() in place of pop(0)
EvictNewest(ph) == IF Len(ph) > HistCap THEN SubSeq(ph, 1, Len(ph) - 1) ELSE ph

\* if len(power_history) > 50: power_history.pop(0)
Evict(ph) == IF Len(ph) > HistCap THEN Tail(ph) ELSE ph

handle_message(msg, h) ==
    IF msg.type = "log" THEN
        LET h1 == [h EXCEPT !.logs = AppendLog(h.logs, msg)]
        IN IF h1.log_table # None
           THEN [h1 EXCEPT !.log_table = Some(Append(h1.log_table[1], msg))]
           ELSE h1
    ELSE IF msg.type = "power_sample" THEN
        LET h1 == [h EXCEPT !.power_history =
                       Evict(Append(h.power_history, <<msg.time, msg.total_power>>))]
        IN IF h1.power_chart # None THEN update_power_chart(h1) ELSE h1
    ELSE h

----------------------------------------------------------------------------
(* Event bus (page.pubsub).  Delivery is synchronous, to every subscriber   *)
(* registered at the moment of the call, in subscription order; a failing   *)
(* handler is isolated.  F is the set of observers that fail on this        *)
(* message.                                                                 *)

\* variant: a handler's exception propagates to the publisher
PropagateHandlerErrors == FALSE

IsolateHandlerErrors == TRUE

RECURSIVE Dispatch(_, _, _, _)
Dispatch(subs, msg, F, acc) ==
    IF subs = <<>> THEN acc
    ELSE LET s == Head(subs)
             acc1 == IF s = "handle_message"
                     THEN [acc EXCEPT !.h = handle_message(msg, acc.h)]
                     ELSE [acc EXCEPT !.got = @ \cup {s}]
         IN IF s \in F /\ ~IsolateHandlerErrors
            THEN [acc1 EXCEPT !.raised = TRUE]
            ELSE Dispatch(Tail(subs), msg, F, acc1)

Delivery(msg, F) ==
    Dispatch(subscribers, msg, F, [h |-> Hist, got |-> {}, raised |-> FALSE])

Subscribed(o) == \E i \in 1..Len(subscribers) : subscribers[i] = o

send_all(msg, F) ==
    LET r == Delivery(msg, F)
    IN /\ F \subseteq {o \in Observers : Subscribed(o)}
       /\ logs' = r.h.logs
       /\ power_history' = r.h.power_history
       /\ log_table' = r.h.log_table
       /\ power_chart' = r.h.power_chart
       /\ sent' = Append(sent, msg)
       /\ recv' = [o \in Observers |->
                     IF o \in r.got THEN recv[o] \cup {Len(sent) + 1} ELSE recv[o]]
       /\ lastFail' = IF F # {} THEN Len(sent) + 1 ELSE lastFail

subscribe(o) ==
    /\ ~Subscribed(o)
    /\ subscribers' = Append(subscribers, o)
    /\ subAt' = [subAt EXCEPT ![o] = Some(Len(sent))]
    /\ recv' = [recv EXCEPT ![o] = {}]
    /\ UNCHANGED <<devices, logs, power_history, log_table, power_chart, view,
                   t, total_power, pc, sent, lastFail>>

unsubscribe(o) ==
    /\ Subscribed(o)
    /\ subscribers' = SelectSeq(subscribers, LAMBDA s : s # o)
    /\ subAt' = [subAt EXCEPT ![o] = None]
    /\ UNCHANGED <<devices, logs, power_history, log_table, power_chart, view,
                   t, total_power, pc, sent, recv, lastFail>>

\* variant: handle_message not subscribed when the sampler starts
NoSubscribers == <<>>

\* page.pubsub.subscribe(handle_message), before page.run_task(simulator_task)
InitSubscribers == <<"handle_message">>

----------------------------------------------------------------------------
(* Sampler: simulator_task *)

\* variant: a task that swallows its cancellation and resumes
AtAwaitOrCancelled == pc \in {"waiting", "cancelled"}

\* simulator_task is suspended (not yet run, or at its await on line 188):
\* the only positions at which another callback runs or a cancel lands.
AtAwait == pc = "waiting"

\* variant: a suspension point between lines 179 and 185
LoopAlwaysFree == TRUE

\* callbacks other than the sampler run only while the sampler is not in
\* the middle of an iteration
LoopFree == pc # "computed"

\* variant: t never incremented
NextTRepeat(n) == n

\* t += 1
NextT(n) == n + 1

simulator_compute(cap) ==
    /\ AtAwait
    /\ t < cap
    /\ total_power' = compute_total_power(devices)
    /\ pc' = "computed"
    /\ UNCHANGED <<devices, logs, power_history, log_table, power_chart, view,
                   t, subscribers, sent, recv, subAt, lastFail>>

simulator_publish ==
    /\ pc = "computed"
    /\ \E F \in SUBSET Observers :
         LET msg == [type |-> "power_sample", time |-> t,
                     total_power |-> total_power]
         IN /\ send_all(msg, F)
            /\ IF Delivery(msg, F).raised
               THEN /\ pc' = "failed"
                    /\ t' = t
               ELSE /\ pc' = "waiting"
                    /\ t' = NextT(t)
    /\ UNCHANGED <<devices, view, total_power, subscribers, subAt>>

\* the task is cancelled by its runner at a suspension point
Cancel ==
    /\ AtAwait
    /\ pc' = "cancelled"
    /\ UNCHANGED <<devices, logs, power_history, log_table, power_chart, view,
                   t, total_power, subscribers, sent, recv, subAt, lastFail>>

----------------------------------------------------------------------------
(* UI handlers.  cap bounds the number of log entries of a run. *)

publish_log(device_id, action, F) ==
    send_all([type |-> "log", device_id |-> device_id, action |-> action,
              user |-> "User"], F)

\* variant: the entry carries the button's new caption, not the new state
toggle_light_logs_caption(cap) ==
    /\ LoopFree
    /\ Len(logs) < cap
    /\ devices' = [devices EXCEPT !["light1"].is_on = ~@]
    /\ \E F \in SUBSET Observers :
         IF devices'["light1"].is_on
         THEN publish_log("light1", <<"Turn OFF">>, F)
         ELSE publish_log("light1", <<"Turn ON">>, F)
    /\ UNCHANGED <<view, t, total_power, pc, subscribers, subAt>>

toggle_light(cap) ==
    /\ LoopFree
    /\ Len(logs) < cap
    /\ devices' = [devices EXCEPT !["light1"].is_on = ~@]
    /\ \E F \in SUBSET Observers :
         IF devices'["light1"].is_on
         THEN publish_log("light1", <<"Turn ON">>, F)
         ELSE publish_log("light1", <<"Turn OFF">>, F)
    /\ UNCHANGED <<view, t, total_power, pc, subscribers, subAt>>

\* create_fan_card.on_change; value is int(e.control.value)
fan_on_change(value, cap) ==
    /\ LoopFree
    /\ Len(logs) < cap
    /\ devices' = [devices EXCEPT !["fan1"].speed = value]
    /\ \E F \in SUBSET Observers : publish_log("fan1", <<"Set speed", value>>, F)
    /\ UNCHANGED <<view, t, total_power, pc, subscribers, subAt>>

\* create_thermostat_card.on_change; the action text is "Set <value:.1f> °C"
thermo_on_change(value, cap) ==
    /\ LoopFree
    /\ Len(logs) < cap
    /\ devices' = [devices EXCEPT !["thermo1"].setpoint = value]
    /\ \E F \in SUBSET Observers : publish_log("thermo1", <<"Set", value, "C">>, F)
    /\ UNCHANGED <<view, t, total_power, pc, subscribers, subAt>>

\* variant: a line of toggle_light left in the door handler
toggle_door_writes_light(cap) ==
    /\ LoopFree
    /\ Len(logs) < cap
    /\ devices' = [devices EXCEPT !["door1"].locked = ~@,
                                  !["light1"].is_on = ~@]
    /\ \E F \in SUBSET Observers :
         IF devices'["door1"].locked
         THEN publish_log("door1", <<"Lock">>, F)
         ELSE publish_log("door1", <<"Unlock">>, F)
    /\ UNCHANGED <<view, t, total_power, pc, subscribers, subAt>>

toggle_door(cap) ==
    /\ LoopFree
    /\ Len(logs) < cap
    /\ devices' = [devices EXCEPT !["door1"].locked = ~@]
    /\ \E F \in SUBSET Observers :
         IF devices'["door1"].locked
         THEN publish_log("door1", <<"Lock">>, F)
         ELSE publish_log("door1", <<"Unlock">>, F)
    /\ UNCHANGED <<view, t, total_power, pc, subscribers, subAt>>

----------------------------------------------------------------------------
(* Route handling.  A route is [page |-> "overview"], [page |-> "statistics"] *)
(* or [page |-> "device", id |-> <id>]; the view keeps the route, the title  *)
(* and the rows that depend on the program's state.                          *)

PageRoutes == {[page |-> "overview"], [page |-> "statistics"]}
DeviceRoutes == {[page |-> "device", id |-> i] : i \in DeviceIds \cup UnknownIds}
Routes == PageRoutes \cup DeviceRoutes

\* variant: a lookup that falls back to the first device
devices_get_default(dev_id) ==
    IF dev_id \in DOMAIN devices THEN Some(devices[dev_id])
    ELSE Some(devices["light1"])

\* devices.get(dev_id)
devices_get(dev_id) ==
    IF dev_id \in DOMAIN devices THEN Some(devices[dev_id]) ELSE None

DeviceInfo(dev) ==
    << <<"ID", dev.id>>, <<"Type", dev.type>> >> \o
    (IF dev.type = "light"
        THEN << <<"State", IF dev.is_on THEN "ON" ELSE "OFF">> >>
     ELSE IF dev.type = "fan"
        THEN << <<"Speed", dev.speed>> >>
     ELSE IF dev.type = "thermostat"
        THEN << <<"Setpoint", dev.setpoint>> >>
     ELSE IF dev.type = "door"
        THEN << <<"Locked", IF dev.locked THEN "YES" ELSE "NO">> >>
     ELSE <<>>)

DeviceView(dev_id) ==
    LET dev == devices_get(dev_id)
        device_logs == SelectSeq(logs, LAMBDA log : log.device_id = dev_id)
    IN [route |-> [page |-> "device", id |-> dev_id],
        title |-> IF dev = None THEN <<"Unknown device">>
                  ELSE <<dev[1].name, "details">>,
        info |-> IF dev = None THEN << <<"Device not found.">> >>
                 ELSE DeviceInfo(dev[1]),
        actions |-> [i \in 1..Len(device_logs) |-> device_logs[i].action]]

OverviewView ==
    [route |-> [page |-> "overview"], title |-> <<"On/Off devices">>,
     info |-> <<>>, actions |-> <<>>]

StatisticsView ==
    [route |-> [page |-> "statistics"],
     title |-> <<"Power consumption (simulated)">>,
     info |-> <<>>, actions |-> <<>>]

route_change(route) ==
    /\ LoopFree
    /\ IF route.page = "overview" THEN
           /\ view' = OverviewView
           /\ UNCHANGED <<log_table, power_chart>>
       ELSE IF route.page = "device" THEN
           /\ view' = DeviceView(route.id)
           /\ UNCHANGED <<log_table, power_chart>>
       ELSE
           /\ view' = StatisticsView
           /\ log_table' = Some(logs)
           /\ power_chart' =
                update_power_chart([Hist EXCEPT !.power_chart = Some(<<>>)]).power_chart
    /\ UNCHANGED <<devices, logs, power_history, t, total_power, pc,
                   subscribers, sent, recv, subAt, lastFail>>

----------------------------------------------------------------------------
(* Specifications *)

InitWith(devs) ==
    /\ devices = devs
    /\ logs = <<>>
    /\ power_history = <<>>
    /\ log_table = None
    /\ power_chart = None
    /\ view = OverviewView
    /\ t = 0
    /\ total_power = 0
    /\ pc = "waiting"
    /\ subscribers = InitSubscribers
    /\ sent = <<>>
    /\ recv = [o \in Observers |-> {}]
    /\ subAt = [o \in Observers |-> None]
    /\ lastFail = 0

Init == InitWith(InitDevices)

Tick == simulator_compute(MaxT)
Publish == simulator_publish
ToggleLight == toggle_light(MaxLogs)
FanChange == \E v \in FanSliderValues : fan_on_change(v, MaxLogs)
ThermoChange == \E v \in ThermoSliderValues : thermo_on_change(v, MaxLogs)
ToggleDoor == toggle_door(MaxLogs)
RouteChange == \E r \in PageRoutes : route_change(r)

Next ==
    \/ Tick
    \/ Publish
    \/ ToggleLight
    \/ FanChange
    \/ ThermoChange
    \/ ToggleDoor
    \/ RouteChange
    \/ Cancel

Spec == Init /\ [][Next]_vars

(* Long runs of the sampler, past the capacity of the power history *)
NextLong ==
    \/ simulator_compute(MaxTLong)
    \/ simulator_publish
    \/ toggle_light(MaxLogsLong)

SpecLong == Init /\ [][NextLong]_vars

(* The power model over every device state the sliders and buttons allow *)
AllDeviceStates ==
    {MkDevices(on, speed, setpoint, locked) :
        on \in BOOLEAN, speed \in FanMin..FanMax,
        setpoint \in SliderMin..SliderMax, locked \in BOOLEAN}

InitPower == \E devs \in AllDeviceStates : InitWith(devs)

NextPower ==
    \/ simulator_compute(MaxTPower)
    \/ simulator_publish

SpecPower == InitPower /\ [][NextPower]_vars

(* The bus with observers that come, go and fail *)
NextBus ==
    \/ simulator_compute(MaxTBus)
    \/ simulator_publish
    \/ toggle_light(MaxLogsBus)
    \/ \E o \in Observers : subscribe(o)
    \/ \E o \in Observers : unsubscribe(o)

SpecBus == Init /\ [][NextBus]_vars

(* Navigation, device pages of known and unknown ids included *)
NextNav ==
    \/ simulator_compute(MaxTNav)
    \/ simulator_publish
    \/ toggle_light(MaxLogsNav)
    \/ \E v \in FanSliderValues : fan_on_change(v, MaxLogsNav)
    \/ \E r \in Routes : route_change(r)

SpecNav == Init /\ [][NextNav]_vars

(* The fan handler driven directly, with values the slider would not send *)
NextRaw ==
    \/ simulator_compute(MaxTRaw)
    \/ simulator_publish
    \/ \E v \in FanRawValues : fan_on_change(v, MaxLogsRaw)

SpecRaw == Init /\ [][NextRaw]_vars

(* Longer runs of the two toggle buttons *)
NextToggle ==
    \/ simulator_compute(MaxTToggle)
    \/ simulator_publish
    \/ toggle_light(MaxLogsToggle)
    \/ toggle_door(MaxLogsToggle)

SpecToggle == Init /\ [][NextToggle]_vars

----------------------------------------------------------------------------
(* Claims *)

SamplesSent == SelectSeq(sent, LAMBDA m : m.type = "power_sample")
LogsSent == SelectSeq(sent, LAMBDA m : m.type = "log")
IsPrefix(a, b) == Len(a) <= Len(b) /\ SubSeq(b, 1, Len(a)) = a
Last(q) == q[Len(q)]

\* C1: the power history never holds more than 50 samples, and after n
\* samples were handled in publish order it holds exactly the last
\* min(n, 50) of them, oldest first: sequenceIndex n-50..n-1 when n > 50,
\* 10..59 after 60 samples.
C1_PowerHistoryFifo ==
    LET n == Len(SamplesSent)
        k == IF n > HistCap THEN HistCap ELSE n
    IN /\ Len(power_history) <= HistCap
       /\ Len(power_history) = k
       /\ \A i \in 1..k :
            /\ power_history[i][1] = n - k + i - 1
            /\ power_history[i] = <<SamplesSent[n - k + i].time,
                                    SamplesSent[n - k + i].total_power>>
       /\ (n = 60 => power_history[1][1] = 10 /\ power_history[50][1] = 59)

C1_Witness ==
    /\ Len(SamplesSent) = 60
    /\ Len(power_history) = HistCap
    /\ power_history[1][1] = 10
    /\ Last(power_history)[1] = 59

\* C2: once computed, the total is 40 if the light is on, plus 20 per fan
\* speed step, plus 500 if the setpoint is strictly above 20; the door adds
\* nothing; setpoint 20 adds nothing; off/0/19 gives 0 and on/2/22 gives 580.
C2_TotalPower ==
    pc = "computed" =>
        LET on == devices["light1"].is_on
            speed == devices["fan1"].speed
            setpoint == devices["thermo1"].setpoint
        IN /\ total_power = (IF on THEN 40 ELSE 0) + 20 * speed
                            + (IF setpoint > 20 THEN 500 ELSE 0)
           /\ (setpoint = 20 => total_power = (IF on THEN 40 ELSE 0) + 20 * speed)
           /\ (~on /\ speed = 0 /\ setpoint = 19 => total_power = 0)
           /\ (on /\ speed = 2 /\ setpoint = 22 => total_power = 580)

C2_Witness ==
    /\ pc = "computed"
    /\ devices["light1"].is_on
    /\ devices["fan1"].speed = 2
    /\ devices["thermo1"].setpoint = 22
    /\ ~devices["door1"].locked
    /\ total_power = 580

\* C3: the samples published carry sequenceIndex 0, 1, 2, ... in this order,
\* whatever mutations and log events are interleaved.
C3_SequenceIndex ==
    \A i \in 1..Len(SamplesSent) : SamplesSent[i].time = i - 1

C3_Witness ==
    /\ Len(SamplesSent) >= 3
    /\ Len(logs) >= 2
    /\ sent[2].type = "log"
    /\ Last(sent).type = "power_sample"

\* C4: every step leaves the old log as a prefix of the new one and adds at
\* most one entry; a step that changes a device changes exactly one device
\* and appends one entry with that device's id; an entry is only ever
\* appended for the log message just published.
C4_LogAppendOnly ==
    [][LET changed == {d \in DeviceIds : devices'[d] # devices[d]}
       IN /\ IsPrefix(logs, logs')
          /\ Len(logs') <= Len(logs) + 1
          /\ (changed # {} =>
                /\ Len(logs') = Len(logs) + 1
                /\ changed = {Last(logs').device_id})
          /\ (LogsSent' # LogsSent =>
                /\ logs' = Append(logs, Last(sent'))
                /\ Last(sent').device_id \in DeviceIds)
          /\ (logs' # logs => LogsSent' # LogsSent)]_vars

C4_Witness ==
    /\ Len(logs) = 2
    /\ logs[1].device_id = "fan1"
    /\ logs[2].device_id = "door1"
    /\ Len(power_history) >= 1

C6_UnknownIdMiss ==
    [][\A i \in UnknownIds :
         route_change([page |-> "device", id |-> i]) =>
            /\ view'.title = <<"Unknown device">>
            /\ view'.info = << <<"Device not found.">> >>
            /\ view'.actions = <<>>
            /\ devices' = devices
            /\ DOMAIN devices' = DeviceIds
            /\ logs' = logs
            /\ power_history' = power_history]_vars

C6_Witness ==
    /\ view.route = [page |-> "device", id |-> "ghost1"]
    /\ view.title = <<"Unknown device">>
    /\ Len(logs) >= 1
    /\ Len(power_history) >= 1

\* C7: an observer subscribed when a message is published receives it, one
\* subscribed later does not receive the earlier ones and receives every
\* later one; handle_message, subscribed before the sampler starts, misses
\* nothing: every log event is in the action log and every sample, sample 0
\* first, is in the power history (below its capacity).
C7_SubscribedReceives ==
    /\ \A o \in Observers :
         subAt[o] # None => recv[o] = (subAt[o][1] + 1)..Len(sent)
    /\ logs = LogsSent
    /\ Len(SamplesSent) <= HistCap =>
         /\ Len(power_history) = Len(SamplesSent)
         /\ \A i \in 1..Len(SamplesSent) :
              power_history[i] = <<SamplesSent[i].time, SamplesSent[i].total_power>>
         /\ (SamplesSent # <<>> => power_history[1][1] = 0)

C7_Witness ==
    /\ subAt["obs1"] # None
    /\ subAt["obs1"][1] >= 1
    /\ Len(sent) > subAt["obs1"][1]
    /\ 1 \notin recv["obs1"]
    /\ Len(sent) \in recv["obs1"]
    /\ logs # <<>>
    /\ power_history # <<>>

C10_SampleIsCurrent ==
    [][/\ pc = "computed" =>
            /\ total_power = compute_total_power(devices)
            /\ devices' = devices
       /\ SamplesSent' # SamplesSent =>
            /\ Last(SamplesSent').total_power = compute_total_power(devices)
            /\ Last(SamplesSent').total_power = compute_total_power(devices')
            /\ Last(power_history') =
                 <<Last(SamplesSent').time, compute_total_power(devices')>>]_vars

C10_Witness ==
    /\ Len(power_history) >= 2
    /\ power_history[1][2] # power_history[2][2]
    /\ Last(power_history)[2] = compute_total_power(devices)
    /\ Last(sent).type = "power_sample"

\* C11: the device set is always light1, fan1, thermo1, door1 with the ids,
\* names and kinds of the start; a step that publishes no log message
\* (sampler tick, message handling, navigation, cancellation) changes no
\* device; a step that publishes the log message of device d changes nothing
\* but the kind-specific field of d (is_on, speed, setpoint or locked).
KindField ==
    ("light" :> "is_on") @@ ("fan" :> "speed") @@
    ("thermostat" :> "setpoint") @@ ("door" :> "locked")

C11_MutationFrame ==
    /\ [](/\ DOMAIN devices = DeviceIds
          /\ \A d \in DeviceIds :
               /\ devices[d].id = d
               /\ devices[d].type = InitDevices[d].type
               /\ devices[d].name = InitDevices[d].name
               /\ DOMAIN devices[d] = DOMAIN InitDevices[d])
    /\ [][/\ LogsSent' = LogsSent => devices' = devices
          /\ LogsSent' # LogsSent =>
               LET d == Last(sent').device_id
                   f == KindField[devices[d].type]
               IN /\ \A e \in DeviceIds \ {d} : devices'[e] = devices[e]
                  /\ [devices'[d] EXCEPT ![f] = devices[d][f]] = devices[d]
                  /\ f = KindField[InitDevices[d].type]]_vars

C11_Witness ==
    /\ Len(logs) = 2
    /\ logs[1].device_id = "thermo1"
    /\ logs[2].device_id = "door1"
    /\ devices["thermo1"].setpoint # InitSetpoint
    /\ ~devices["door1"].locked
    /\ devices["light1"] = InitDevices["light1"]
    /\ devices["fan1"] = InitDevices["fan1"]
    /\ Len(power_history) >= 1

\* C12: an entry of light1 says "Turn ON" exactly when the toggle that
\* logged it made is_on true and "Turn OFF" exactly when it made it false; an
\* entry of door1 says "Lock" exactly when locked became true and "Unlock"
\* exactly when it became false.  Hence the newest entry of each of the two
\* devices agrees with its current state, and the entries of one device
\* strictly alternate.
LightLogs == SelectSeq(logs, LAMBDA e : e.device_id = "light1")
DoorLogs == SelectSeq(logs, LAMBDA e : e.device_id = "door1")
Alternates(q) == \A i \in 1..(Len(q) - 1) : q[i].action # q[i + 1].action

C12_ToggleLogNamesState ==
    /\ [](/\ \A i \in 1..Len(LightLogs) :
               LightLogs[i].action \in {<<"Turn ON">>, <<"Turn OFF">>}
          /\ \A i \in 1..Len(DoorLogs) :
               DoorLogs[i].action \in {<<"Lock">>, <<"Unlock">>}
          /\ LightLogs # <<>> =>
               (Last(LightLogs).action = <<"Turn ON">> <=> devices["light1"].is_on)
          /\ DoorLogs # <<>> =>
               (Last(DoorLogs).action = <<"Lock">> <=> devices["door1"].locked)
          /\ Alternates(LightLogs)
          /\ Alternates(DoorLogs))
    /\ [][/\ LightLogs' # LightLogs =>
               /\ devices'["light1"].is_on # devices["light1"].is_on
               /\ Last(logs').action = <<"Turn ON">> <=> devices'["light1"].is_on
               /\ Last(logs').action = <<"Turn OFF">> <=> ~devices'["light1"].is_on
          /\ DoorLogs' # DoorLogs =>
               /\ devices'["door1"].locked # devices["door1"].locked
               /\ Last(logs').action = <<"Lock">> <=> devices'["door1"].locked
               /\ Last(logs').action = <<"Unlock">> <=> ~devices'["door1"].locked
          /\ devices'["light1"] # devices["light1"] => LightLogs' # LightLogs
          /\ devices'["door1"] # devices["door1"] => DoorLogs' # DoorLogs]_vars

C12_Witness ==
    /\ Len(LightLogs) = 2
    /\ Len(DoorLogs) = 2
    /\ LightLogs[1].action = <<"Turn ON">>
    /\ LightLogs[2].action = <<"Turn OFF">>
    /\ DoorLogs[1].action = <<"Unlock">>
    /\ DoorLogs[2].action = <<"Lock">>
    /\ logs[2].device_id = "door1"
    /\ ~devices["light1"].is_on
    /\ devices["door1"].locked
    /\ Len(power_history) = 1

====
